---- MODULE Spec2Model ----
(***************************************************************************)
(* A model of rin/router (src/unnamed/part_000): the hash-fragment router  *)
(* of rin-core.  Strings are sequences of one-character strings; indices   *)
(* are 0-based as in the JavaScript source, and converted where a TLA+     *)
(* sequence is indexed.                                                    *)
(***************************************************************************)
EXTENDS Integers, Sequences, FiniteSets, TLC

VARIABLES
    hash,                   \* platform: location.hash without its leading "#"
    pending,                \* platform: hashchange events queued, not yet delivered
    onhashchange,           \* platform: TRUE when global.onhashchange is the router's listener
    location,               \* _Router.location
    args,                   \* _Router.args
    ignoreHashchangeEvent,  \* _Router.ignoreHashchangeEvent
    alreadyAttached,        \* _Router.alreadyAttached
    routes,                 \* _Router.routes: Route objects in key insertion order
    sortedRoutes,           \* _Router.sortedRoutes: keys of routes
    calls,                  \* what the last operation dispatched and which handlers it invoked
    outcome,                \* how the last operation's onLocationChanged ended ("none" if it ran none)
    cLocation,              \* realLocation: the template argument
    pLocation,              \* realLocation: the context after its defaults
    state,                  \* realLocation: automaton state
    i,                      \* realLocation: cursor over cLocation
    j,                      \* realLocation: cursor over pLocation
    rLocation,              \* realLocation: result buffer
    returned                \* realLocation: <<>> while running, <<result>> once returned

rvars == <<hash, pending, onhashchange, location, args, ignoreHashchangeEvent,
           alreadyAttached, routes, sortedRoutes, calls, outcome>>
avars == <<cLocation, pLocation, state, i, j, rLocation, returned>>
vars == <<rvars, avars>>

----------------------------------------------------------------------------
(* Bounds of the model.                                                    *)

MaxPending == 2
MaxIgnore == 2
MaxListeners == 1
MaxDispatches == 3
MaxHooked == 2
MaxT == 4
MaxP == 3

----------------------------------------------------------------------------
(* JavaScript string primitives.                                           *)

\* s.substr(k, 1): a string of one character, or "" past the end
CharAt(s, k) == IF k >= 0 /\ k < Len(s) THEN <<s[k + 1]>> ELSE <<>>

\* s.substr(k)
SubstrFrom(s, k) == IF k >= Len(s) THEN <<>> ELSE SubSeq(s, (IF k < 0 THEN 0 ELSE k) + 1, Len(s))

\* s.substr(k, n): "" when n is zero or negative
Substr(s, k, n) ==
    IF n <= 0 \/ k >= Len(s) THEN <<>>
    ELSE SubSeq(s, k + 1, IF k + n > Len(s) THEN Len(s) ELSE k + n)

\* s.indexOf(c, from) for a one-character c
IndexOf(s, c, from) ==
    IF \E k \in from..(Len(s) - 1) : s[k + 1] = c
    THEN CHOOSE k \in from..(Len(s) - 1) :
            s[k + 1] = c /\ \A l \in from..(k - 1) : s[l + 1] # c
    ELSE -1

\* s.lastIndexOf(c) for a one-character c
LastIndexOf(s, c) ==
    IF \E k \in 0..(Len(s) - 1) : s[k + 1] = c
    THEN CHOOSE k \in 0..(Len(s) - 1) :
            s[k + 1] = c /\ \A l \in (k + 1)..(Len(s) - 1) : s[l + 1] # c
    ELSE -1

RECURSIVE TrimLeft(_)
TrimLeft(s) == IF s # <<>> /\ Head(s) = " " THEN TrimLeft(Tail(s)) ELSE s

RECURSIVE TrimRight(_)
TrimRight(s) ==
    IF s # <<>> /\ s[Len(s)] = " " THEN TrimRight(SubSeq(s, 1, Len(s) - 1)) ELSE s

\* s.trim()
Trim(s) == TrimRight(TrimLeft(s))

\* s.split("/"): at least one piece, "" splits to [""]
RECURSIVE SplitFrom(_, _, _)
SplitFrom(s, k, piece) ==
    IF k > Len(s) THEN <<piece>>
    ELSE IF s[k] = "/" THEN <<piece>> \o SplitFrom(s, k + 1, <<>>)
    ELSE SplitFrom(s, k + 1, Append(piece, s[k]))

Split(s) == SplitFrom(s, 1, <<>>)

----------------------------------------------------------------------------
(* realLocation: the reconciliation automaton.  m is the record of its     *)
(* locals [state, i, j, r]; c is cLocation and p is pLocation.             *)

RLStart == [state |-> 0, i |-> 0, j |-> 0, r |-> <<>>]

\* the while condition
RLRunning(c, p, m) == m.state # -1 /\ m.i < Len(c) /\ m.j < Len(p)

\* case 0 that drops the character that differs when it halts
RLCase0_DropsChar(c, p, m) ==
    IF CharAt(c, m.i) = <<"*">>
    THEN [m EXCEPT !.state = 1, !.i = m.i + 1]
    ELSE IF CharAt(c, m.i) # CharAt(p, m.j)
         THEN [m EXCEPT !.state = -1, !.i = m.i + 1, !.j = m.j + 1,
                        !.r = m.r \o SubstrFrom(c, m.i + 1)]
         ELSE [m EXCEPT !.i = m.i + 1, !.j = m.j + 1, !.r = m.r \o CharAt(p, m.j)]

\* case 0: copy a literal, or meet a wildcard
RLCase0(c, p, m) ==
    IF CharAt(c, m.i) = <<"*">>
    THEN [m EXCEPT !.state = 1, !.i = m.i + 1]
    ELSE IF CharAt(c, m.i) # CharAt(p, m.j)
         THEN [m EXCEPT !.state = -1, !.i = m.i + 1, !.j = m.j + 1,
                        !.r = m.r \o SubstrFrom(c, m.i)]
         ELSE [m EXCEPT !.i = m.i + 1, !.j = m.j + 1, !.r = m.r \o CharAt(p, m.j)]

\* case 1: a second asterisk makes the wildcard a double one
RLCase1(c, p, m) ==
    IF CharAt(c, m.i) = <<"*">>
    THEN [m EXCEPT !.state = 3, !.i = m.i + 1]
    ELSE [m EXCEPT !.state = 2]

\* what cases 2 and 3 append when the anchor is found at k
RLSkipped(p, m, k) == Substr(p, m.j, k - m.j)

\* case 2 with the anchor searched from the start of the context
RLCase2_FromStart(c, p, m) ==
    LET k == IndexOf(p, c[m.i + 1], 0) IN
    IF k = -1
    THEN [m EXCEPT !.state = -1, !.r = m.r \o SubstrFrom(p, m.j) \o SubstrFrom(c, m.i)]
    ELSE [m EXCEPT !.state = 0, !.j = k, !.r = m.r \o RLSkipped(p, m, k)]

\* case 2 that goes back to case 1 when the anchor is found
RLCase2_Again(c, p, m) ==
    LET k == IndexOf(p, c[m.i + 1], m.j) IN
    IF k = -1
    THEN [m EXCEPT !.state = -1, !.r = m.r \o SubstrFrom(p, m.j) \o SubstrFrom(c, m.i)]
    ELSE [m EXCEPT !.state = 1, !.j = k, !.r = m.r \o RLSkipped(p, m, k)]

\* case 2: resolve "*" by the first anchor at or after j
RLCase2(c, p, m) ==
    LET k == IndexOf(p, c[m.i + 1], m.j) IN
    IF k = -1
    THEN [m EXCEPT !.state = -1, !.r = m.r \o SubstrFrom(p, m.j) \o SubstrFrom(c, m.i)]
    ELSE [m EXCEPT !.state = 0, !.j = k, !.r = m.r \o RLSkipped(p, m, k)]

\* the anchor search of case 3
RLLastAnchor(c, p, m) == LastIndexOf(p, c[m.i + 1])

\* case 3 that falls back like case 2, with the rest of the context
RLCase3_AppendsContext(c, p, m) ==
    LET k == RLLastAnchor(c, p, m) IN
    IF k = -1
    THEN [m EXCEPT !.state = -1, !.r = m.r \o SubstrFrom(p, m.j) \o SubstrFrom(c, m.i)]
    ELSE [m EXCEPT !.state = 0, !.j = k, !.r = m.r \o RLSkipped(p, m, k)]

\* case 3: resolve "**" by the last anchor
RLCase3(c, p, m) ==
    LET k == RLLastAnchor(c, p, m) IN
    IF k = -1
    THEN [m EXCEPT !.state = -1, !.r = m.r \o SubstrFrom(c, m.i)]
    ELSE [m EXCEPT !.state = 0, !.j = k, !.r = m.r \o RLSkipped(p, m, k)]

\* one turn of the loop
RLStep(c, p, m) ==
    CASE m.state = 0 -> RLCase0(c, p, m)
      [] m.state = 1 -> RLCase1(c, p, m)
      [] m.state = 2 -> RLCase2(c, p, m)
      [] m.state = 3 -> RLCase3(c, p, m)

RECURSIVE RLRun(_, _, _)
RLRun(c, p, m) == IF RLRunning(c, p, m) THEN RLRun(c, p, RLStep(c, p, m)) ELSE m

\* the return that appends the rest of the template whether halted or not
RLReturn_Always(c, m) == Trim(m.r \o SubstrFrom(c, m.i))

\* after the loop: the rest of the template unless halted, then trim
RLReturn(c, m) == Trim(IF m.state # -1 THEN m.r \o SubstrFrom(c, m.i) ELSE m.r)

\* the defaults of pLocation; an empty string is falsy, like an omitted argument
RLContext(p, loc) ==
    LET p1 == IF p = <<>> THEN loc ELSE p
    IN IF p1 = <<>> THEN <<" ">> ELSE p1

\* realLocation (cLocation, pLocation), with loc the router's location
realLocation(c, p, loc) == RLReturn(c, RLRun(c, RLContext(p, loc), RLStart))

----------------------------------------------------------------------------
(* Route: compilation of a route expression.                               *)

Lower == {"a", "b", "c", "d", "e", "f", "g", "h", "i", "j", "k", "l", "m",
          "n", "o", "p", "q", "r", "s", "t", "u", "v", "w", "x", "y", "z"}
Upper == {"A", "B", "C", "D", "E", "F", "G", "H", "I", "J", "K", "L", "M",
          "N", "O", "P", "Q", "R", "S", "T", "U", "V", "W", "X", "Y", "Z"}
Digits == {"0", "1", "2", "3", "4", "5", "6", "7", "8", "9"}

\* the character class [!@A-Za-z0-9_-]
NameChars == Lower \cup Upper \cup Digits \cup {"!", "@", "_", "-"}

\* the text "([^/]+)" a parameter is replaced by
Group == <<"(", "[", "^", "/", "]", "+", ")">>

\* /:([!@A-Za-z0-9_-]+)/.exec(route): 1-based place of the leftmost match, 0 if none
FirstParam(route) ==
    LET hits == {k \in 1..(Len(route) - 1) : route[k] = ":" /\ route[k + 1] \in NameChars}
    IN IF hits = {} THEN 0 ELSE CHOOSE k \in hits : \A l \in hits : k <= l

\* the last place of the name that starts after the colon at k (the + is greedy)
NameEnd(route, k) ==
    CHOOSE e \in (k + 1)..Len(route) :
        /\ \A l \in (k + 1)..e : route[l] \in NameChars
        /\ (e = Len(route) \/ route[e + 1] \notin NameChars)

\* the while loop of _compileRoute
RECURSIVE CompileParams(_, _)
CompileParams(route, params) ==
    LET k == FirstParam(route) IN
    IF k = 0 THEN [route |-> route, params |-> params]
    ELSE LET e == NameEnd(route, k) IN
         CompileParams(SubSeq(route, 1, k - 1) \o Group \o SubSeq(route, e + 1, Len(route)),
                       Append(params, SubSeq(route, k + 1, e)))

\* route.replace(/##/g, "")
RECURSIVE StripMarkers(_)
StripMarkers(s) ==
    IF Len(s) < 2 THEN s
    ELSE IF s[1] = "#" /\ s[2] = "#" THEN StripMarkers(SubSeq(s, 3, Len(s)))
    ELSE <<s[1]>> \o StripMarkers(Tail(s))

\* _compileRoute: the regular expression's text and the parameter names
compileRoute(route) ==
    LET c == CompileParams(route, <<>>)
    IN [routeRegex |-> <<"^">> \o StripMarkers(c.route), params |-> c.params]

\* s_args is null (<<>>) or a string (<<str>>)
Null == <<>>

\* new _Router.Route (route)
NewRoute(route) ==
    LET c == compileRoute(route)
    IN [value |-> route, routeRegex |-> c.routeRegex, params |-> c.params,
        s_args |-> Null, active |-> FALSE, changed |-> FALSE,
        routed |-> <<>>, unrouted |-> <<>>]

----------------------------------------------------------------------------
(* Matching a location against a compiled expression: the text is read as  *)
(* the regular expression engine reads it.  A group "([^/]+)" takes the    *)
(* longest run without "/" that lets the rest match; "." takes any         *)
(* character; every other character of the model's alphabets is a literal. *)

IsGroupAt(re, p) == p + 6 <= Len(re) /\ SubSeq(re, p, p + 6) = Group

\* the length of the run of characters other than "/" that starts at q
RunLength(s, q) ==
    LET ends == {n \in 0..(Len(s) - q + 1) : \A l \in q..(q + n - 1) : s[l] # "/"}
    IN CHOOSE n \in ends : \A n2 \in ends : n2 <= n

\* <<>> when there is no match, else <<captures>>
RECURSIVE MatchFrom(_, _, _, _)
RECURSIVE MatchGroup(_, _, _, _, _)
MatchFrom(re, p, s, q) ==
    IF p > Len(re) THEN << <<>> >>
    ELSE IF IsGroupAt(re, p) THEN MatchGroup(re, p, s, q, RunLength(s, q))
    ELSE IF q > Len(s) THEN <<>>
    ELSE IF re[p] = "." \/ re[p] = s[q] THEN MatchFrom(re, p + 1, s, q + 1)
    ELSE <<>>

MatchGroup(re, p, s, q, n) ==
    IF n < 1 THEN <<>>
    ELSE LET rest == MatchFrom(re, p + 7, s, q + n) IN
         IF rest # <<>> THEN << <<SubSeq(s, q, q + n - 1)>> \o rest[1] >>
         ELSE MatchGroup(re, p, s, q, n - 1)

\* route.match (this.routeRegex): the expression starts with the anchor "^"
Match(re, s) == MatchFrom(re, 2, s, 1)

----------------------------------------------------------------------------
(* The router as one value w: the platform's hash and event queue, the     *)
(* router's fields, and the record of the calls of the running operation.  *)
(* A listener is a handler's name; NoHandler is an omitted argument.       *)

NoHandler == "undefined"

\* this.routes[key]: the place of the route in routes, 0 when there is none
RouteIndex(rs, key) ==
    IF \E n \in 1..Len(rs) : rs[n].value = key
    THEN CHOOSE n \in 1..Len(rs) : rs[n].value = key
    ELSE 0

RouteOf(w, key) == w.routes[RouteIndex(w.routes, key)]

\* addEventListener (name, handler, null): appended, in registration order
AddListener(list, h) == Append(list, h)

\* removeEventListener (name, handler, null): by identity
RemoveListener(list, h) == SelectSeq(list, LAMBDA x : x # h)

\* Route.addHandler; unrouted is "true", "false" or "undefined" (omitted)
addHandler(rt, h, unrouted) ==
    IF unrouted = "true"
    THEN [rt EXCEPT !.unrouted = AddListener(@, h)]
    ELSE [rt EXCEPT !.routed = AddListener(@, h)]

\* Route.removeHandler
removeHandler(rt, h, unrouted) ==
    IF unrouted = "true"
    THEN [rt EXCEPT !.unrouted = RemoveListener(@, h)]
    ELSE [rt EXCEPT !.routed = RemoveListener(@, h)]

\* the comparator's key: _Router.routes[a].routeRegex.length
RegexLength(rs, key) == Len(rs[RouteIndex(rs, key)].routeRegex)

\* the insertion that puts a key before the keys it ties with
RECURSIVE SortInsert_Unstable(_, _, _)
SortInsert_Unstable(rs, sorted, key) ==
    IF sorted = <<>> THEN <<key>>
    ELSE IF RegexLength(rs, key) - RegexLength(rs, Head(sorted)) <= 0
         THEN <<key>> \o sorted
         ELSE <<Head(sorted)>> \o SortInsert_Unstable(rs, Tail(sorted), key)

\* Array.prototype.sort with that comparator: a stable sort
RECURSIVE SortInsert(_, _, _)
SortInsert(rs, sorted, key) ==
    IF sorted = <<>> THEN <<key>>
    ELSE IF RegexLength(rs, key) - RegexLength(rs, Head(sorted)) < 0
         THEN <<key>> \o sorted
         ELSE <<Head(sorted)>> \o SortInsert(rs, Tail(sorted), key)

RECURSIVE SortRoutes(_, _)
SortRoutes(rs, keys) ==
    IF keys = <<>> THEN <<>>
    ELSE SortInsert(rs, SortRoutes(rs, SubSeq(keys, 1, Len(keys) - 1)), keys[Len(keys)])

\* addRoute
addRoute(w, route, onRoute, onUnroute) ==
    LET w1 == IF RouteIndex(w.routes, route) = 0
              THEN LET rs == Append(w.routes, NewRoute(route))
                   IN [w EXCEPT !.routes = rs,
                                !.sortedRoutes = SortRoutes(rs, Append(w.sortedRoutes, route))]
              ELSE w
        n == RouteIndex(w1.routes, route)
    IN IF onUnroute # NoHandler
       THEN [w1 EXCEPT !.routes[n] = addHandler(addHandler(@, onRoute, "false"), onUnroute, "true")]
       ELSE [w1 EXCEPT !.routes[n] = addHandler(@, onRoute, "false")]

\* the for-in loop of addRoutes over the pairs of the map, in enumeration order
RECURSIVE AddRoutesLoop(_, _)
AddRoutesLoop(w, pairs) ==
    IF pairs = <<>> THEN w
    ELSE LET key == pairs[1][1]
             w1 == IF RouteIndex(w.routes, key) = 0
                   THEN [w EXCEPT !.routes = Append(@, NewRoute(key)),
                                  !.sortedRoutes = Append(@, key)]
                   ELSE w
             n == RouteIndex(w1.routes, key)
         IN AddRoutesLoop([w1 EXCEPT !.routes[n] = addHandler(@, pairs[1][2], "false")],
                          Tail(pairs))

\* addRoutes
addRoutes(w, pairs) ==
    LET w1 == AddRoutesLoop(w, pairs)
    IN [w1 EXCEPT !.sortedRoutes = SortRoutes(w1.routes, w1.sortedRoutes)]

\* the removal that also drops a route left without handlers
removeRoute_Prune(w, route, onRoute, onUnroute) ==
    LET n == RouteIndex(w.routes, route) IN
    IF n = 0 THEN w
    ELSE LET rt == IF onUnroute # NoHandler
                   THEN removeHandler(removeHandler(w.routes[n], onRoute, "false"),
                                      onUnroute, "true")
                   ELSE removeHandler(w.routes[n], onRoute, NoHandler)
         IN IF rt.routed = <<>> /\ rt.unrouted = <<>>
            THEN [w EXCEPT !.routes = SelectSeq(@, LAMBDA x : x.value # route),
                           !.sortedRoutes = SelectSeq(@, LAMBDA x : x # route)]
            ELSE [w EXCEPT !.routes[n] = rt]

\* removeRoute
removeRoute(w, route, onRoute, onUnroute) ==
    LET n == RouteIndex(w.routes, route) IN
    IF n = 0 THEN w
    ELSE IF onUnroute # NoHandler
         THEN [w EXCEPT !.routes[n] =
                   removeHandler(removeHandler(@, onRoute, "false"), onUnroute, "true")]
         ELSE [w EXCEPT !.routes[n] = removeHandler(@, onRoute, NoHandler)]

\* removeRoutes
RECURSIVE removeRoutes(_, _)
removeRoutes(w, pairs) ==
    IF pairs = <<>> THEN w
    ELSE LET n == RouteIndex(w.routes, pairs[1][1]) IN
         removeRoutes(IF n = 0 THEN w
                      ELSE [w EXCEPT !.routes[n] = removeHandler(@, pairs[1][2], NoHandler)],
                      Tail(pairs))

----------------------------------------------------------------------------
(* Handlers are the callers' callbacks.  h1 and h2 only observe; hAdd and  *)
(* hRem call back into the router while the event is being emitted.        *)

HookRoute == <<"/">>

RunHandler(w, h) ==
    CASE h = "hAdd" -> addRoute(w, HookRoute, "h1", NoHandler)
      [] h = "hRem" -> removeRoute(w, HookRoute, "h1", NoHandler)
      [] OTHER -> w

\* obj[name] = value on an object kept as its own properties in insertion order:
\* an existing property keeps its place and takes the value
ArgsPut(obj, name, value) ==
    IF \E n \in 1..Len(obj) : obj[n][1] = name
    THEN [n \in 1..Len(obj) |-> IF obj[n][1] = name THEN <<name, value>> ELSE obj[n]]
    ELSE Append(obj, <<name, value>>)

\* the property "route" and the value it is given: the Route object itself
RouteProperty == <<"r", "o", "u", "t", "e">>
ThisRoute == <<"[object Route]">>

\* the for loop of dispatch on the args object: args[params[i]] = matches[i+1]
RECURSIVE ArgsLoop(_, _, _)
ArgsLoop(obj, params, caps) ==
    IF params = <<>> \/ caps = <<>> THEN obj
    ELSE ArgsLoop(ArgsPut(obj, Head(params), Head(caps)), Tail(params), Tail(caps))

\* the object given to the listeners: { route: this } and the named captures
EventArgs(rt, caps) == ArgsLoop(<< <<RouteProperty, ThisRoute>> >>, rt.params, caps)

\* one entry of calls: a dispatch (h = "", loc its argument) or a handler's
\* invocation (args the object it is given), with the route's fields as they are
\* at that moment and the captured values
CallEntry(w, key, ev, h, caps) ==
    LET rt == RouteOf(w, key)
    IN [ev |-> ev, route |-> key, h |-> h, active |-> rt.active,
        changed |-> rt.changed, s_args |-> rt.s_args, caps |-> caps,
        args |-> EventArgs(rt, caps), loc |-> <<>>]

\* dispatchEvent: the listeners registered when the event is emitted, in order
RECURSIVE EmitTo(_, _, _, _, _)
EmitTo(w, key, ev, list, caps) ==
    IF list = <<>> THEN w
    ELSE EmitTo(RunHandler([w EXCEPT !.calls = Append(@, CallEntry(w, key, ev, Head(list), caps))],
                           Head(list)),
                key, ev, Tail(list), caps)

dispatchEvent(w, key, ev, caps) ==
    EmitTo(w, key, ev, IF ev = "routed" THEN RouteOf(w, key).routed
                       ELSE RouteOf(w, key).unrouted, caps)

\* the string built by the for loop of dispatch: "_" + value, for every parameter
RECURSIVE ArgsString(_)
ArgsString(caps) ==
    IF caps = <<>> THEN <<>> ELSE <<"_">> \o Head(caps) \o ArgsString(Tail(caps))

\* the no-match branch that leaves s_args as it is
DispatchNoMatch_Keeps(w, key) ==
    LET n == RouteIndex(w.routes, key)
        w2 == IF w.routes[n].active THEN dispatchEvent(w, key, "unrouted", <<>>) ELSE w
    IN [w2 EXCEPT !.routes[n].active = FALSE]

\* the no-match branch that emits the event whether the route was active or not
DispatchNoMatch_Always(w, key) ==
    LET n == RouteIndex(w.routes, key)
        w1 == [w EXCEPT !.routes[n].s_args = Null]
    IN [dispatchEvent(w1, key, "unrouted", <<>>) EXCEPT !.routes[n].active = FALSE]

\* the no-match branch that marks the route inactive first and clears s_args last
DispatchNoMatch_ClearsLast(w, key) ==
    LET n == RouteIndex(w.routes, key)
        w1 == [w EXCEPT !.routes[n].active = FALSE]
        w2 == IF w.routes[n].active THEN dispatchEvent(w1, key, "unrouted", <<>>) ELSE w1
    IN [w2 EXCEPT !.routes[n].s_args = Null]

\* the no-match branch of Route.dispatch
DispatchNoMatch(w, key) ==
    LET n == RouteIndex(w.routes, key)
        w1 == [w EXCEPT !.routes[n].s_args = Null]
        w2 == IF w1.routes[n].active THEN dispatchEvent(w1, key, "unrouted", <<>>) ELSE w1
    IN [w2 EXCEPT !.routes[n].active = FALSE]

\* the match branch that does not store the string it compared
DispatchMatch_Forgets(w, key, caps) ==
    LET n == RouteIndex(w.routes, key)
        str == ArgsString(caps)
        w1 == [w EXCEPT !.routes[n].changed = (<<str>> # w.routes[n].s_args)]
        w2 == dispatchEvent(w1, key, "routed", caps)
    IN [w2 EXCEPT !.routes[n].active = TRUE]

\* the match branch that stores the string and marks the route active before it
\* emits the event
DispatchMatch_StoresFirst(w, key, caps) ==
    LET n == RouteIndex(w.routes, key)
        str == ArgsString(caps)
        w1 == [w EXCEPT !.routes[n].changed = (<<str>> # w.routes[n].s_args),
                        !.routes[n].s_args = <<str>>, !.routes[n].active = TRUE]
    IN dispatchEvent(w1, key, "routed", caps)

\* the match branch of Route.dispatch
DispatchMatch(w, key, caps) ==
    LET n == RouteIndex(w.routes, key)
        str == ArgsString(caps)
        w1 == [w EXCEPT !.routes[n].changed = (<<str>> # w.routes[n].s_args)]
        w2 == dispatchEvent(w1, key, "routed", caps)
    IN [w2 EXCEPT !.routes[n].s_args = <<str>>, !.routes[n].active = TRUE]

\* Route.dispatch (route), of the route with that key
dispatch(w, key, loc) ==
    LET w0 == [w EXCEPT !.calls = Append(@, [CallEntry(w, key, "dispatch", "", <<>>)
                                                EXCEPT !.loc = loc])]
        matches == Match(RouteOf(w0, key).routeRegex, loc)
    IN IF matches = <<>> THEN DispatchNoMatch(w0, key)
       ELSE DispatchMatch(w0, key, matches[1])

\* the value dispatch returns: that of the assignment to active in its return
dispatchResult(w, key, loc) == Match(RouteOf(w, key).routeRegex, loc) # <<>>

\* the for loop of onLocationChanged, over the array as it is at each turn
RECURSIVE DispatchLoop(_, _)
DispatchLoop(w, n) ==
    IF n < Len(w.sortedRoutes)
    THEN DispatchLoop(dispatch(w, w.sortedRoutes[n + 1], w.location), n + 1)
    ELSE w

----------------------------------------------------------------------------
(* The platform and the router's facade.                                   *)

\* the write of the fragment that queues no hashchange event
WriteHash_Quiet(w, v) == [w EXCEPT !.hash = v]

\* global.location.hash = v, global.location.replace("#" + v): a hashchange
\* event is queued when the fragment changes
WriteHash(w, v) ==
    IF v = w.hash THEN w ELSE [w EXCEPT !.hash = v, !.pending = @ + 1]

\* the context onLocationChanged passes to realLocation: none, so the defaults apply
ChangedContext_Raw(w) == w.hash

ChangedContext(w) == <<>>

\* the redirect that also commits the fragment it is about to replace
Redirected_Commits(w, r) ==
    [WriteHash([w EXCEPT !.location = w.hash, !.args = Split(w.hash)], r)
        EXCEPT !.outcome = "redirect"]

\* the branch of onLocationChanged for a fragment that is not its own real location
Redirected(w, r) == [WriteHash(w, r) EXCEPT !.outcome = "redirect"]

\* the commit of the fragment c
Committed(w, c) == [w EXCEPT !.location = c, !.args = Split(c)]

\* the suppressed run that leaves the count as it was
Suppressed_Keeps(w) == [w EXCEPT !.outcome = "suppressed"]

\* the run to ignore that lowers the count and dispatches the routes all the same
Suppressed_Dispatches(w) ==
    [DispatchLoop(w, 0) EXCEPT !.ignoreHashchangeEvent = @ - 1, !.outcome = "suppressed"]

\* the branch of onLocationChanged for a run to ignore
Suppressed(w) == [w EXCEPT !.ignoreHashchangeEvent = @ - 1, !.outcome = "suppressed"]

\* onLocationChanged
onLocationChanged(w) ==
    LET c == w.hash
        r == realLocation(c, ChangedContext(w), w.location)
    IN IF c # r
       THEN Redirected(w, r)
       ELSE LET w1 == Committed(w, c) IN
            IF w1.ignoreHashchangeEvent > 0
            THEN Suppressed(w1)
            ELSE [DispatchLoop(w1, 0) EXCEPT !.outcome = "dispatched"]

\* the refresh that commits and dispatches the fragment as it is
refresh_AsIs(w) ==
    [DispatchLoop(Committed(w, w.hash), 0) EXCEPT !.outcome = "dispatched"]

\* refresh
refresh(w) == onLocationChanged(w)

\* the setRoute that counts a silent call before it compares the locations
setRoute_CountsFirst(w, route, silent) ==
    LET loc == realLocation(route, <<>>, w.location)
        w1 == IF silent THEN [w EXCEPT !.ignoreHashchangeEvent = @ + 1] ELSE w
    IN IF loc = w.location THEN w1 ELSE WriteHash(w1, loc)

\* setRoute
setRoute(w, route, silent) ==
    LET loc == realLocation(route, <<>>, w.location) IN
    IF loc = w.location THEN w
    ELSE WriteHash(IF silent THEN [w EXCEPT !.ignoreHashchangeEvent = @ + 1] ELSE w, loc)

----------------------------------------------------------------------------
(* The state machine of the router.                                        *)

\* the router's state as one value, at the start of an operation
Cur ==
    [hash |-> hash, pending |-> pending, location |-> location, args |-> args,
     ignoreHashchangeEvent |-> ignoreHashchangeEvent, routes |-> routes,
     sortedRoutes |-> sortedRoutes, calls |-> <<>>, outcome |-> "none"]

\* the bounds an operation's result must respect for the operation to be taken:
\* MaxHooked listeners on the route the handlers register on, MaxListeners on the others
Within(w) ==
    /\ w.pending <= MaxPending
    /\ w.ignoreHashchangeEvent <= MaxIgnore
    /\ \A n \in 1..Len(w.routes) :
          LET max == IF w.routes[n].value = HookRoute THEN MaxHooked ELSE MaxListeners
          IN Len(w.routes[n].routed) <= max /\ Len(w.routes[n].unrouted) <= max

\* the state after an operation that ends in w
Becomes(w) ==
    /\ Within(w)
    /\ hash' = w.hash
    /\ pending' = w.pending
    /\ location' = w.location
    /\ args' = w.args
    /\ ignoreHashchangeEvent' = w.ignoreHashchangeEvent
    /\ routes' = w.routes
    /\ sortedRoutes' = w.sortedRoutes
    /\ calls' = w.calls
    /\ outcome' = w.outcome
    /\ UNCHANGED avars

\* the automaton's variables while the router runs
Idle ==
    /\ cLocation = <<>> /\ pLocation = <<>> /\ state = 0 /\ i = 0 /\ j = 0
    /\ rLocation = <<>> /\ returned = <<>>

\* the object literal, before _Router.init() at the end of the module
Init ==
    /\ hash \in {<<>>, <<"/", "b">>}
    /\ pending = 0
    /\ onhashchange = FALSE
    /\ location = <<>>
    /\ args = <<>>
    /\ ignoreHashchangeEvent = 0
    /\ alreadyAttached = FALSE
    /\ routes = <<>>
    /\ sortedRoutes = <<>>
    /\ calls = <<>>
    /\ outcome = "none"
    /\ Idle

\* init
init ==
    /\ IF alreadyAttached
       THEN UNCHANGED <<alreadyAttached, onhashchange>>
       ELSE alreadyAttached' = TRUE /\ onhashchange' = TRUE
    /\ Becomes(Cur)

\* the user or a script of the page changes the fragment to v
HashChange(v) ==
    /\ alreadyAttached
    /\ v # hash
    /\ Becomes(WriteHash(Cur, v))
    /\ UNCHANGED <<alreadyAttached, onhashchange>>

\* the platform delivers a queued hashchange event to the listener
Notify ==
    /\ onhashchange
    /\ pending > 0
    /\ Becomes(onLocationChanged([Cur EXCEPT !.pending = @ - 1]))
    /\ UNCHANGED <<alreadyAttached, onhashchange>>

Refresh ==
    /\ alreadyAttached
    /\ Becomes(refresh(Cur))
    /\ UNCHANGED <<alreadyAttached, onhashchange>>

SetRoute(route, silent) ==
    /\ alreadyAttached
    /\ Becomes(setRoute(Cur, route, silent))
    /\ UNCHANGED <<alreadyAttached, onhashchange>>

AddRoute(route, onRoute, onUnroute) ==
    /\ alreadyAttached
    /\ Becomes(addRoute(Cur, route, onRoute, onUnroute))
    /\ UNCHANGED <<alreadyAttached, onhashchange>>

AddRoutes(pairs) ==
    /\ alreadyAttached
    /\ Becomes(addRoutes(Cur, pairs))
    /\ UNCHANGED <<alreadyAttached, onhashchange>>

RemoveRoute(route, onRoute, onUnroute) ==
    /\ alreadyAttached
    /\ Becomes(removeRoute(Cur, route, onRoute, onUnroute))
    /\ UNCHANGED <<alreadyAttached, onhashchange>>

RemoveRoutes(pairs) ==
    /\ alreadyAttached
    /\ Becomes(removeRoutes(Cur, pairs))
    /\ UNCHANGED <<alreadyAttached, onhashchange>>

----------------------------------------------------------------------------
(* The inputs of the operations.                                           *)

RouteRoot == <<"/">>
RouteA == <<"/", "a">>
RouteB == <<"/", "b">>
RouteId == <<"/", "a", "/", ":", "i", "d">>

\* fragments the user enters
Hashes ==
    { <<"/", "a", "/", "5">>, <<"/", "b">>, <<"*", "*", "/", "6">>,
      <<"*", "*", "*">>, <<"/", "b", "*">> }

\* templates given to setRoute
Templates == { <<"/", "a", "/", "5">>, <<"*", "*", "/", "6">>, <<"/", "b">> }

\* the calls of addRoute and removeRoute: route, onRoute, onUnroute
RouteCalls ==
    { <<RouteRoot, "h1", NoHandler>>, <<RouteA, "hAdd", NoHandler>>,
      <<RouteB, "h2", "h2">>, <<RouteId, "hRem", NoHandler>> }

\* the maps given to addRoutes and removeRoutes, as pairs in enumeration order
RouteMaps ==
    { << <<RouteB, "h2">>, <<RouteA, "hAdd">> >>,
      << <<RouteId, "hRem">>, <<RouteRoot, "h1">> >> }

\* the routes registered while the facade is exercised
FacadeCalls == { <<RouteB, "h1", NoHandler>>, <<RouteId, "h2", "h1">> }

Next ==
    \/ init
    \/ \E v \in Hashes : HashChange(v)
    \/ Notify
    \/ Refresh
    \/ \E t \in Templates, silent \in BOOLEAN : SetRoute(t, silent)
    \/ \E c \in FacadeCalls : AddRoute(c[1], c[2], c[3])
    \/ \E c \in FacadeCalls : RemoveRoute(c[1], c[2], c[3])

Spec == Init /\ [][Next]_vars

----------------------------------------------------------------------------
(* The route table: addRoute, removeRoute and removeRoutes, with the passes *)
(* run by refresh over a page whose fragment stays as it was loaded.       *)

InitTable ==
    /\ hash = <<"/", "a", "/", "5">>
    /\ pending = 0
    /\ onhashchange = FALSE
    /\ location = <<>>
    /\ args = <<>>
    /\ ignoreHashchangeEvent = 0
    /\ alreadyAttached = FALSE
    /\ routes = <<>>
    /\ sortedRoutes = <<>>
    /\ calls = <<>>
    /\ outcome = "none"
    /\ Idle

NextTable ==
    \/ init
    \/ Refresh
    \/ \E c \in RouteCalls : AddRoute(c[1], c[2], c[3])
    \/ \E c \in RouteCalls : RemoveRoute(c[1], c[2], c[3])
    \/ \E m \in RouteMaps : RemoveRoutes(m)

SpecTable == InitTable /\ [][NextTable]_vars

\* the registration calls alone, in every sequence
NextOrder ==
    \/ init
    \/ \E c \in RouteCalls : AddRoute(c[1], c[2], c[3])
    \/ \E m \in RouteMaps : AddRoutes(m)
    \/ \E c \in RouteCalls : RemoveRoute(c[1], c[2], c[3])
    \/ \E m \in RouteMaps : RemoveRoutes(m)

SpecOrder == InitTable /\ [][NextOrder]_vars

----------------------------------------------------------------------------
(* Navigation: the facade with one route whose handler registers another,  *)
(* while the fragment changes, notifications are delivered and the page    *)
(* calls init, refresh and setRoute.                                       *)

NavCalls == { <<RouteA, "hAdd", NoHandler>> }

NextNav ==
    \/ init
    \/ \E v \in Hashes : HashChange(v)
    \/ Notify
    \/ Refresh
    \/ \E t \in Templates, silent \in BOOLEAN : SetRoute(t, silent)
    \/ \E c \in NavCalls : AddRoute(c[1], c[2], c[3])

SpecNav == Init /\ [][NextNav]_vars

----------------------------------------------------------------------------
(* One Route object, with a listener of each event, dispatched directly:   *)
(* calls keeps every call made on it since it was constructed.             *)

PatLiteral == <<"/", "a">>
PatDot == <<"/", "a", ".", "c">>
PatOne == <<"/", "a", "/", ":", "i", "d">>
PatTwo == <<"/", ":", "x", "/", ":", "y">>
PatSame == <<"/", ":", "x", "/", ":", "x">>

Patterns == {PatLiteral, PatDot, PatOne, PatTwo, PatSame}

\* the locations a route is dispatched with
Locations ==
    { <<"/", "a">>, <<"/", "b">>, <<"/", "a", "b", "c">>,
      <<"/", "a", "/", "c">>,
      <<"/", "a", "_", "b", "/", "c">>, <<"/", "a", "/", "b", "_", "c">> }

\* a router with no route
NoRoutes ==
    [hash |-> <<>>, pending |-> 0, location |-> <<>>, args |-> <<>>,
     ignoreHashchangeEvent |-> 0, routes |-> <<>>, sortedRoutes |-> <<>>,
     calls |-> <<>>, outcome |-> "none"]

\* new Route (p), then addHandler of one listener of each event
InitRoute ==
    /\ hash = <<>>
    /\ pending = 0
    /\ onhashchange = TRUE
    /\ location = <<>>
    /\ args = <<>>
    /\ ignoreHashchangeEvent = 0
    /\ alreadyAttached = TRUE
    /\ \E p \in Patterns :
          LET w == addRoute(NoRoutes, p, "h1", "h2")
          IN routes = w.routes /\ sortedRoutes = w.sortedRoutes
    /\ calls = <<>>
    /\ outcome = "none"
    /\ Idle

\* the number of dispatch calls in a list of calls
Dispatches(cs) == Len(SelectSeq(cs, LAMBDA e : e.ev = "dispatch"))

\* route.dispatch (loc), on the only route
Dispatch(loc) ==
    /\ Len(routes) = 1
    /\ Dispatches(calls) < MaxDispatches
    /\ Becomes(dispatch([Cur EXCEPT !.calls = calls], routes[1].value, loc))
    /\ UNCHANGED <<alreadyAttached, onhashchange>>

NextRoute == \E loc \in Locations : Dispatch(loc)

SpecRoute == InitRoute /\ [][NextRoute]_vars

----------------------------------------------------------------------------
(* realLocation, one turn of its loop at a time, for every template and    *)
(* context within the bounds.                                              *)

LocationChars == {"a", "/", "*"}

RECURSIVE StringsOfLength(_)
StringsOfLength(n) ==
    IF n = 0 THEN {<<>>}
    ELSE {Append(s, c) : s \in StringsOfLength(n - 1), c \in LocationChars}

StringsUpTo(n) == UNION {StringsOfLength(k) : k \in 0..n}

\* the automaton's locals
Auto == [state |-> state, i |-> i, j |-> j, r |-> rLocation]

AutoBecomes(m) ==
    /\ state' = m.state
    /\ i' = m.i
    /\ j' = m.j
    /\ rLocation' = m.r
    /\ UNCHANGED <<cLocation, pLocation, returned>>
    /\ UNCHANGED rvars

InitReconcile ==
    /\ hash = <<>>
    /\ pending = 0
    /\ onhashchange = FALSE
    /\ location = <<>>
    /\ args = <<>>
    /\ ignoreHashchangeEvent = 0
    /\ alreadyAttached = FALSE
    /\ routes = <<>>
    /\ sortedRoutes = <<>>
    /\ calls = <<>>
    /\ outcome = "none"
    /\ cLocation \in StringsUpTo(MaxT)
    /\ \E p \in StringsUpTo(MaxP) : pLocation = RLContext(p, location)
    /\ state = RLStart.state
    /\ i = RLStart.i
    /\ j = RLStart.j
    /\ rLocation = RLStart.r
    /\ returned = <<>>

Turn == returned = <<>> /\ RLRunning(cLocation, pLocation, Auto)

Case0 == Turn /\ state = 0 /\ AutoBecomes(RLCase0(cLocation, pLocation, Auto))

Case1 == Turn /\ state = 1 /\ AutoBecomes(RLCase1(cLocation, pLocation, Auto))

Case2 == Turn /\ state = 2 /\ AutoBecomes(RLCase2(cLocation, pLocation, Auto))

Case3 == Turn /\ state = 3 /\ AutoBecomes(RLCase3(cLocation, pLocation, Auto))

Return ==
    /\ returned = <<>>
    /\ ~RLRunning(cLocation, pLocation, Auto)
    /\ returned' = <<RLReturn(cLocation, Auto)>>
    /\ UNCHANGED <<cLocation, pLocation, state, i, j, rLocation>>
    /\ UNCHANGED rvars

NextReconcile == Case0 \/ Case1 \/ Case2 \/ Case3 \/ Return

SpecReconcile == InitReconcile /\ [][NextReconcile]_vars

\* the loop is straight-line code of one call: once realLocation is called, its
\* turns and its return are taken
LiveReconcile == SpecReconcile /\ WF_vars(NextReconcile)

----------------------------------------------------------------------------
(* Properties of realLocation, checked under SpecReconcile.                *)

\* the character of the template the cursor i is at: the anchor in cases 2 and 3
Anchor == cLocation[i + 1]

\* the first place of the anchor in the context at or after the cursor j
FirstAnchor ==
    CHOOSE k \in j..(Len(pLocation) - 1) :
        pLocation[k + 1] = Anchor /\ \A l \in j..(k - 1) : pLocation[l + 1] # Anchor

\* the last place of the anchor in the context
LastAnchor ==
    CHOOSE k \in 0..(Len(pLocation) - 1) :
        pLocation[k + 1] = Anchor /\ \A l \in (k + 1)..(Len(pLocation) - 1) : pLocation[l + 1] # Anchor

\* a turn of case 2 whose anchor occurs at or after j appends P[j:k], sets j = k
\* and leaves i on the anchor, which equals P[j] on resuming
C9_Resolve ==
    (Turn /\ state = 2 /\ \E k \in j..(Len(pLocation) - 1) : pLocation[k + 1] = Anchor)
    => /\ Anchor # "*"
       /\ cLocation[i] = "*"
       /\ rLocation' = rLocation \o SubSeq(pLocation, j + 1, FirstAnchor)
       /\ j' = FirstAnchor
       /\ i' = i
       /\ state' = 0
       /\ CharAt(cLocation, i') = CharAt(pLocation, j')

\* the turn of case 0 after a wildcard was resolved copies the anchor as a literal
C9_Resume ==
    (Turn /\ state = 0 /\ i >= 1 /\ cLocation[i] = "*" /\ Anchor # "*")
    => /\ rLocation' = Append(rLocation, Anchor)
       /\ i' = i + 1
       /\ j' = j + 1
       /\ state' = 0

\* C9: a single wildcard followed by a literal c (not an asterisk) that occurs in
\* the context at or after the cursor j appends P[j:k], k the first index of c at
\* or after j, sets j = k and resumes literal copying at c; so "*/5" against
\* "users/3" gives "users/5" and "*/edit" against "a/b/c" gives "a/edit".
C9_SingleWildcard ==
    /\ realLocation(<<"*", "/", "5">>, <<"u", "s", "e", "r", "s", "/", "3">>, <<>>)
          = <<"u", "s", "e", "r", "s", "/", "5">>
    /\ realLocation(<<"*", "/", "e", "d", "i", "t">>, <<"a", "/", "b", "/", "c">>, <<>>)
          = <<"a", "/", "e", "d", "i", "t">>
    /\ [][C9_Resolve /\ C9_Resume]_vars

\* a leading single wildcard has skipped a non-empty P[0:j] and stands on its anchor
C9_Witness ==
    /\ Turn /\ state = 0 /\ i = 1 /\ j >= 1
    /\ cLocation[1] = "*"
    /\ rLocation = SubSeq(pLocation, 1, j)
    /\ CharAt(cLocation, i) = CharAt(pLocation, j)

\* C10: a double wildcard followed by a literal c that occurs in the context skips
\* forward to the last occurrence k of c: k >= j, the cursor j never decreases, the
\* text appended is P[j:k] and copying resumes at c.
C10_DoubleWildcard ==
    [][(Turn /\ state = 3 /\ \E k \in 0..(Len(pLocation) - 1) : pLocation[k + 1] = Anchor)
       => /\ LastAnchor >= j
          /\ j' >= j
          /\ j' = LastAnchor
          /\ rLocation' = rLocation \o SubSeq(pLocation, j + 1, LastAnchor)
          /\ state' = 0]_vars

\* C11: a literal mismatch in the copy state (T[i] is not an asterisk and differs
\* from P[j]) halts the automaton with the buffer followed by T[i:] verbatim, so a
\* later wildcard stays in it unresolved; a halted automaton takes no further
\* turn, and the value returned is the trimmed buffer: the rest of T is appended
\* once.
C11_MismatchHalts ==
    [][/\ (Turn /\ state = 0 /\ Anchor # "*" /\ Anchor # pLocation[j + 1])
          => /\ state' = -1
             /\ rLocation' = rLocation \o SubSeq(cLocation, i + 1, Len(cLocation))
       /\ state = -1
          => /\ state' = -1
             /\ rLocation' = rLocation
             /\ returned' = <<Trim(rLocation)>>]_vars

\* a mismatch on the second character, before an asterisk, has returned the template
C11_Witness ==
    /\ state = -1 /\ i = 2 /\ j = 2
    /\ Len(cLocation) >= 3
    /\ cLocation[1] # "*" /\ cLocation[2] # "*" /\ cLocation[3] = "*"
    /\ returned = <<cLocation>>

\* the anchor of cases 2 and 3 occurs in the context at or after the place k
AnchorFrom(k) == \E l \in k..(Len(pLocation) - 1) : pLocation[l + 1] = Anchor

\* the rest of a string from the 0-based place k
Rest(s, k) == SubSeq(s, k + 1, Len(s))

\* C24: when the anchor of a wildcard is not found in the context, realLocation
\* does not fail, it halts: a single "*" leaves the buffer followed by P[j:] and
\* then T[i:], a double "**" the buffer followed by T[i:] only; the anchor of "*"
\* is searched from j, that of "**" in the whole context; the halted call returns
\* its (trimmed) buffer.
C24_AnchorNotFound ==
    /\ realLocation(<<"a", "*", "b">>, <<"a", "/", "c">>, <<>>)
          = <<"a", "/", "c", "b">>
    /\ realLocation(<<"a", "*", "*", "b">>, <<"a", "/", "c">>, <<>>) = <<"a", "b">>
    /\ [][/\ (Turn /\ state = 2)
              => IF AnchorFrom(j)
                 THEN state' = 0
                 ELSE /\ state' = -1
                      /\ rLocation' = rLocation \o Rest(pLocation, j) \o Rest(cLocation, i)
          /\ (Turn /\ state = 3)
              => IF AnchorFrom(0)
                 THEN state' = 0
                 ELSE /\ state' = -1
                      /\ rLocation' = rLocation \o Rest(cLocation, i)
          /\ (Turn /\ state \in {2, 3}) => i < Len(cLocation)
          /\ (state = -1 /\ returned = <<>>) => returned' = <<Trim(rLocation)>>]_vars

\* a single wildcard whose anchor occurs in the context only before j has halted
\* and returned the buffer, the rest of the context and the rest of the template
C24_Witness ==
    /\ state = -1
    /\ i >= 2 /\ j >= 1
    /\ cLocation[i] = "*" /\ cLocation[i - 1] # "*"
    /\ \E l \in 0..(j - 1) : pLocation[l + 1] = Anchor
    /\ ~AnchorFrom(j)
    /\ returned = <<SubSeq(cLocation, 1, i - 1) \o Rest(pLocation, j) \o Rest(cLocation, i)>>

\* what is left of the loop: three for every character of the template not yet
\* consumed, and the turns the state can take before case 0 consumes one
Left ==
    3 * (Len(cLocation) - i)
      + (CASE state = 1 -> 2 [] state \in {2, 3} -> 1 [] OTHER -> 0)

\* C26: realLocation terminates for every template and every context: every turn
\* of the loop lowers what is left of it, which is never negative; every turn of
\* case 0 consumes a character of the template, and a turn that consumes none and
\* does not halt goes from case 1 to case 2 or from cases 2 and 3 to case 0, so
\* every cycle through the states consumes one; and the call returns.
C26_Terminates ==
    /\ [][Turn => /\ Left' < Left
                  /\ Left' >= 0
                  /\ state = 0 => i' = i + 1
                  /\ (state' # -1 /\ i' = i)
                     => <<state, state'>> \in {<<1, 2>>, <<2, 0>>, <<3, 0>>}]_vars
    /\ <>(returned # <<>>)

\* a call whose template starts with three asterisks, against a context that
\* holds an asterisk, has returned
C26_Witness ==
    /\ returned # <<>>
    /\ Len(cLocation) >= 3
    /\ \A k \in 1..3 : cLocation[k] = "*"
    /\ \E k \in 1..Len(pLocation) : pLocation[k] = "*"

\* the template holds no asterisk
NoWildcard == \A k \in 1..Len(cLocation) : cLocation[k] # "*"

\* C27: for a template with no asterisk and no leading or trailing whitespace,
\* realLocation returns the template itself, whatever the context.
C27_WildcardFree ==
    /\ realLocation(<<"a", " ", "b">>, <<"a", "/">>, <<>>) = <<"a", " ", "b">>
    /\ (returned # <<>> /\ NoWildcard /\ Trim(cLocation) = cLocation)
          => returned = <<cLocation>>

\* a template with no asterisk that differs from the context after a common
\* first character, and one that the context ends before, have been returned
C27_Witness ==
    /\ returned = <<cLocation>>
    /\ NoWildcard
    /\ Len(cLocation) >= 2
    /\ cLocation[1] = pLocation[1]
    /\ Len(pLocation) >= 2 /\ cLocation[2] # pLocation[2]
    /\ state = -1

----------------------------------------------------------------------------
(* Properties of the facade, checked under Spec.                           *)

\* the keys of the dispatch calls recorded in a list of calls, in order
DispatchSeq(cs) ==
    LET ds == SelectSeq(cs, LAMBDA e : e.ev = "dispatch")
    IN [n \in 1..Len(ds) |-> ds[n].route]

C6_SelfReconcile ==
    [][outcome' # "none"
       => /\ (outcome' = "redirect") <=> (realLocation(hash, hash, <<>>) # hash)
          /\ outcome' # "redirect"
               => realLocation(location', location', <<>>) = location']_vars

\* the context onLocationChanged reconciles against: the location committed
\* before, or a single space when that is empty
PreviousContext == IF location = <<>> THEN <<" ">> ELSE location

\* C6, amended: onLocationChanged reconciles the raw fragment against the
\* location committed before it (a single space when that is empty): it redirects
\* to that result when the result differs from the raw fragment, and commits the
\* raw fragment when it does not.
C6_PreviousContext ==
    [][outcome' # "none"
       => LET r == realLocation(hash, PreviousContext, <<>>) IN
          IF r # hash
          THEN outcome' = "redirect" /\ hash' = r /\ location' = location
          ELSE outcome' # "redirect" /\ hash' = hash /\ location' = hash]_vars

\* a fragment was committed that its reconciliation against itself would change
C6_Witness ==
    /\ outcome \in {"suppressed", "dispatched"}
    /\ location = hash
    /\ realLocation(location, location, <<>>) # location

\* C7: after a redirect the replaced fragment is its own real location, so the
\* follow-up notification commits it and a chain of redirects has length one.
C7_RedirectOnce ==
    outcome = "redirect" => realLocation(hash, <<>>, location) = hash

\* C8: a run of onLocationChanged that redirects replaces the platform's fragment
\* and changes nothing else: location, args, the count and every route are as
\* before, and no route is dispatched and no handler invoked.
C8_RedirectFrame ==
    [][outcome' = "redirect"
       => /\ hash' # hash
          /\ location' = location
          /\ args' = args
          /\ ignoreHashchangeEvent' = ignoreHashchangeEvent
          /\ routes' = routes
          /\ sortedRoutes' = sortedRoutes
          /\ calls' = <<>>]_vars

\* a redirect with a suppression pending and a route active
C8_Witness ==
    /\ outcome = "redirect"
    /\ ignoreHashchangeEvent > 0
    /\ location # <<>>
    /\ \E n \in 1..Len(routes) : routes[n].active /\ routes[n].routed # <<>>

----------------------------------------------------------------------------
(* Properties of the route table, checked under SpecTable and SpecOrder.   *)

\* whether the route's own expression matches the location
Matches(rt, loc) == Match(rt.routeRegex, loc) # <<>>

\* C2: a committed, non-suppressed run of onLocationChanged has called dispatch
\* once on every entry of the table, in the sequence of sortedRoutes, and at its
\* end every entry is active iff its own expression matches the location.
C2_EveryRouteInOrder ==
    outcome = "dispatched"
    => /\ DispatchSeq(calls) = sortedRoutes
       /\ \A n \in 1..Len(routes) : routes[n].active <=> Matches(routes[n], location)

\* C3: a dispatch pass dispatches every route that was in sortedRoutes when it
\* started exactly once, in that order, whatever its handlers add or remove: the
\* pass is over a snapshot of sortedRoutes.
C3_SnapshotPass ==
    [][outcome' = "dispatched" => DispatchSeq(calls') = sortedRoutes]_vars

\* addRoute for every pair of a map, in enumeration order
RECURSIVE AddRouteEach(_, _)
AddRouteEach(w, pairs) ==
    IF pairs = <<>> THEN w
    ELSE AddRouteEach(addRoute(w, pairs[1][1], pairs[1][2], NoHandler), Tail(pairs))

\* the maps addRoutes is compared on
C4_Maps ==
    { << <<RouteB, "h1">>, <<RouteA, "h1">> >>,
      << <<RouteA, "h1">>, <<RouteB, "h1">> >>,
      << <<RouteId, "h1">>, <<RouteRoot, "h1">> >>,
      << <<RouteId, "h1">>, <<RouteB, "h1">>, <<RouteRoot, "h1">>, <<RouteA, "h1">> >> }

\* C4: sortedRoutes holds exactly the keys of routes, each once, by ascending
\* length of the compiled expression, ties in insertion order; and addRoutes
\* leaves the order that addRoute for each pair in turn leaves.
C4_SortedOrder ==
    /\ Len(sortedRoutes) = Len(routes)
    /\ \A n \in 1..Len(routes) :
          Cardinality({m \in 1..Len(sortedRoutes) : sortedRoutes[m] = routes[n].value}) = 1
    /\ \A a, b \in 1..Len(sortedRoutes) :
          a < b =>
             LET na == RouteIndex(routes, sortedRoutes[a])
                 nb == RouteIndex(routes, sortedRoutes[b])
             IN \/ Len(routes[na].routeRegex) < Len(routes[nb].routeRegex)
                \/ Len(routes[na].routeRegex) = Len(routes[nb].routeRegex) /\ na < nb
    /\ \A pairs \in C4_Maps :
          addRoutes(Cur, pairs).sortedRoutes = AddRouteEach(Cur, pairs).sortedRoutes

\* four routes, with a tie and with a longer expression inserted before a shorter
C4_Witness ==
    /\ Len(sortedRoutes) = 4
    /\ RouteIndex(routes, RouteB) < RouteIndex(routes, RouteA)
    /\ RouteIndex(routes, RouteId) < RouteIndex(routes, RouteRoot)
    /\ sortedRoutes = <<RouteRoot, RouteB, RouteA, RouteId>>

\* a route's fields other than its handler lists
Entry(rt) ==
    [value |-> rt.value, routeRegex |-> rt.routeRegex, params |-> rt.params,
     s_args |-> rt.s_args, active |-> rt.active, changed |-> rt.changed]

----------------------------------------------------------------------------
(* Properties of one Route, checked under SpecRoute.                       *)

\* the places of the dispatch calls in calls
DispatchIdx == {n \in 1..Len(calls) : calls[n].ev = "dispatch"}

\* the result of route.match for the dispatch call at place n
MatchOf(n) == Match(routes[1].routeRegex, calls[n].loc)

\* the places of the dispatch calls that matched
MatchIdx == {n \in DispatchIdx : MatchOf(n) # <<>>}

\* the greatest element of a non-empty set of places
Latest(S) == CHOOSE n \in S : \A m \in S : m <= n

\* the dispatch calls made before the one at place n
Before(S, n) == {m \in S : m < n}

\* the last dispatch call and the one made just before it, when there are two
LastTwo ==
    IF Cardinality(DispatchIdx) < 2 THEN <<>>
    ELSE LET d2 == Latest(DispatchIdx) IN <<Latest(Before(DispatchIdx, d2)), d2>>

\* C12: after dispatch is called twice in a row with the same matching location,
\* changed is false.
C12_SameLocationTwice ==
    (LastTwo # <<>> /\ calls[LastTwo[1]].loc = calls[LastTwo[2]].loc
        /\ MatchOf(LastTwo[2]) # <<>>)
    => ~routes[1].changed

\* a route with parameters was dispatched twice in a row with a location it matches
C12_Witness ==
    /\ LastTwo # <<>>
    /\ calls[LastTwo[1]].loc = calls[LastTwo[2]].loc
    /\ MatchOf(LastTwo[2]) # <<>>
    /\ Len(routes[1].params) = 2
    /\ ~routes[1].changed

\* C13: when a matching dispatch captures a tuple of values that differs from the
\* tuple captured by the matching dispatch made just before it, changed is true.
C13_DifferentCaptures ==
    (LastTwo # <<>> /\ MatchOf(LastTwo[1]) # <<>> /\ MatchOf(LastTwo[2]) # <<>>
        /\ MatchOf(LastTwo[1])[1] # MatchOf(LastTwo[2])[1])
    => routes[1].changed

\* C14: changed is true iff the most recent matching dispatch captured values
\* different from those of the matching dispatch before it (a first match counts
\* as different), whatever non-matching dispatches were made in between; a route
\* that never matched has changed false.
C14_LastTwoMatches ==
    IF MatchIdx = {} THEN ~routes[1].changed
    ELSE LET d == Latest(MatchIdx) IN
         routes[1].changed
         <=> \/ Before(MatchIdx, d) = {}
             \/ MatchOf(Latest(Before(MatchIdx, d)))[1] # MatchOf(d)[1]

\* C14, amended: changed is true iff the most recent matching dispatch was the
\* first dispatch of the route, or came just after a dispatch that did not match,
\* or came just after a matching dispatch whose captured values give a different
\* signature string; a route that never matched has changed false.
C14_SinceLastDispatch ==
    IF MatchIdx = {} THEN ~routes[1].changed
    ELSE LET d == Latest(MatchIdx) IN
         routes[1].changed
         <=> \/ Before(DispatchIdx, d) = {}
             \/ LET b == Latest(Before(DispatchIdx, d)) IN
                \/ MatchOf(b) = <<>>
                \/ ArgsString(MatchOf(b)[1]) # ArgsString(MatchOf(d)[1])

\* a match, a dispatch that does not match, and a match with the same captured
\* values: changed is true
C14_Witness ==
    /\ Cardinality(DispatchIdx) = 3
    /\ LET d == Latest(DispatchIdx)
           b == Latest(Before(DispatchIdx, d))
           a == Latest(Before(DispatchIdx, b))
       IN /\ MatchOf(a) # <<>> /\ MatchOf(b) = <<>> /\ MatchOf(d) # <<>>
          /\ MatchOf(a) = MatchOf(d)
          /\ Len(routes[1].params) > 0
    /\ routes[1].changed

\* whether s starts with p
StartsWith(s, p) == Len(p) <= Len(s) /\ SubSeq(s, 1, Len(p)) = p

\* C18: for a pattern without a parameter, dispatch returns true (and leaves the
\* route active) iff the location starts with the pattern.
C18_LiteralPrefix ==
    (FirstParam(routes[1].value) = 0 /\ DispatchIdx # {})
    => (routes[1].active
        <=> StartsWith(calls[Latest(DispatchIdx)].loc, routes[1].value))

\* the names of the parameters of a pattern, read from left to right: each colon
\* followed by a name character starts one, which runs while name characters do
RECURSIVE TokenNames(_, _)
TokenNames(route, k) ==
    IF k >= Len(route) THEN <<>>
    ELSE IF route[k] = ":" /\ route[k + 1] \in NameChars
         THEN <<SubSeq(route, k + 1, NameEnd(route, k))>>
                 \o TokenNames(route, NameEnd(route, k) + 1)
         ELSE TokenNames(route, k + 1)

\* the value of the property of an args object
ArgsGet(obj, name) == obj[CHOOSE n \in 1..Len(obj) : obj[n][1] = name][2]

\* C19: params lists the names of the pattern's parameters from left to right,
\* and the args object a listener of a match is given binds the k-th name to the
\* k-th captured value, a non-empty run without "/".
C19_NamesInOrder ==
    /\ routes[1].params = TokenNames(routes[1].value, 1)
    /\ \A n \in 1..Len(calls) :
          calls[n].ev = "routed"
          => /\ Len(calls[n].caps) = Len(routes[1].params)
             /\ \A k \in 1..Len(routes[1].params) :
                   /\ calls[n].caps[k] # <<>>
                   /\ \A l \in 1..Len(calls[n].caps[k]) : calls[n].caps[k][l] # "/"
                   /\ ArgsGet(calls[n].args, routes[1].params[k]) = calls[n].caps[k]

\* the entries of a list of calls that are emissions of the unrouted event
UnroutedIn(cs) == {n \in 1..Len(cs) : cs[n].ev = "unrouted"}

\* the dispatch calls of a list of calls that matched
MatchedIn(cs) ==
    {n \in 1..Len(cs) :
        cs[n].ev = "dispatch" /\ Match(routes[1].routeRegex, cs[n].loc) # <<>>}

\* C20: a dispatch that does not match emits the unrouted event, once, iff the
\* route was active before the call, and leaves it inactive; a dispatch that
\* matches emits none; so every emission follows a matching dispatch with no
\* other emission in between, and a route that never matched has emitted none.
C20_UnroutedOnDeactivation ==
    [][LET new == SubSeq(calls', Len(calls) + 1, Len(calls'))
           emitted == Cardinality(UnroutedIn(new))
       IN /\ new # <<>>
             => IF Match(routes[1].routeRegex, new[1].loc) = <<>>
                THEN /\ emitted = (IF routes[1].active THEN 1 ELSE 0)
                     /\ ~routes'[1].active
                     /\ \A n \in UnroutedIn(new) :
                           new[n].args = << <<RouteProperty, ThisRoute>> >>
                ELSE emitted = 0 /\ routes'[1].active
          /\ \A u \in UnroutedIn(calls') :
                \E m \in MatchedIn(calls') :
                   /\ m < u
                   /\ \A u2 \in UnroutedIn(calls') : ~(m < u2 /\ u2 < u)]_vars

\* a match, a dispatch that does not match and emits, and one more that emits none
C20_Witness ==
    /\ Cardinality(DispatchIdx) = 3
    /\ Cardinality(UnroutedIn(calls)) = 1
    /\ LET d == Latest(DispatchIdx) IN
       /\ MatchOf(d) = <<>>
       /\ \E u \in UnroutedIn(calls) : u < d
    /\ ~routes[1].active

\* the entries of calls made by the listeners of the two events
HandlerIdx == {n \in 1..Len(calls) : calls[n].ev \in {"routed", "unrouted"}}

\* C21: in every state of a route, and in every state a listener observes while
\* an event is emitted, a route that is not active has no s_args; after a
\* completed dispatch an active route has one; and dispatch returns the new
\* value of active.
C21_ActiveAndSignature ==
    /\ ~routes[1].active => routes[1].s_args = Null
    /\ routes[1].active => routes[1].s_args # Null
    /\ \A n \in 1..Len(calls) : ~calls[n].active => calls[n].s_args = Null
    /\ DispatchIdx # {}
          => dispatchResult(Cur, routes[1].value, calls[Latest(DispatchIdx)].loc)
                = routes[1].active

\* a listener of each event has observed the route, which matched with no
\* parameter and then stopped matching
C21_Witness ==
    /\ \E n \in HandlerIdx : calls[n].ev = "routed" /\ ~calls[n].active
    /\ \E n \in HandlerIdx :
          calls[n].ev = "unrouted" /\ calls[n].active /\ calls[n].s_args = Null
    /\ \E n \in MatchIdx : ArgsString(MatchOf(n)[1]) = <<>>
    /\ ~routes[1].active
    /\ MatchOf(Latest(DispatchIdx)) = <<>>

\* the entries a step adds to calls
NewCalls == SubSeq(calls', Len(calls) + 1, Len(calls'))

\* C25: a dispatch that matches sets changed, then emits the routed event, then
\* stores s_args and sets active: the listener observes the new changed with
\* active and s_args as they were before the call, and after the call s_args is
\* the string of the captures and active is true.
C25_OrderOfEffects ==
    [][\A n \in 1..Len(NewCalls) :
          NewCalls[n].ev = "routed"
          => LET str == ArgsString(NewCalls[n].caps)
             IN /\ NewCalls[n].changed = (<<str>> # routes[1].s_args)
                /\ NewCalls[n].active = routes[1].active
                /\ NewCalls[n].s_args = routes[1].s_args
                /\ routes'[1].changed = NewCalls[n].changed
                /\ routes'[1].s_args = <<str>>
                /\ routes'[1].active]_vars

\* the listener observed a changed route that was not active and had no s_args,
\* and another time an unchanged route that was active and had one
C25_Witness ==
    /\ \E n \in HandlerIdx :
          /\ calls[n].ev = "routed" /\ calls[n].changed
          /\ ~calls[n].active /\ calls[n].s_args = Null
    /\ \E n \in HandlerIdx :
          /\ calls[n].ev = "routed" /\ ~calls[n].changed
          /\ calls[n].active /\ calls[n].s_args # Null
    /\ routes[1].active

----------------------------------------------------------------------------
(* Properties of navigation, checked under SpecNav.                        *)

\* C15: a setRoute whose template reconciles to the current location is a no-op:
\* the platform's fragment is not written, no notification is queued and the
\* count is not raised, silent or not.
C15_NoOpSetRoute ==
    [][\A t \in Templates, silent \in BOOLEAN :
          (SetRoute(t, silent) /\ realLocation(t, <<>>, location) = location)
          => /\ hash' = hash
             /\ pending' = pending
             /\ ignoreHashchangeEvent' = ignoreHashchangeEvent
             /\ location' = location
             /\ routes' = routes]_vars

\* after a pass, a setRoute to the committed location has left everything in place
C15_Witness ==
    /\ outcome = "none"
    /\ location # <<>>
    /\ location \in Templates
    /\ hash = location
    /\ pending = 0
    /\ ignoreHashchangeEvent = 0
    /\ \E n \in 1..Len(routes) : routes[n].active

\* C16: refresh leaves the platform's fragment exactly as it was.
C16_RefreshKeepsHash ==
    [][Refresh => hash' = hash]_vars

\* C16, amended: refresh runs onLocationChanged: when the fragment is its own real
\* location against the committed location, the fragment stays as it was and is
\* committed; when it is not, refresh replaces the fragment with that real
\* location, which queues a notification, and commits nothing.
C16_RefreshReconciles ==
    [][Refresh
       => LET r == realLocation(hash, <<>>, location) IN
          IF r = hash
          THEN /\ hash' = hash
               /\ pending' = pending
               /\ location' = hash
               /\ outcome' \in {"suppressed", "dispatched"}
          ELSE /\ hash' = r
               /\ pending' = pending + 1
               /\ location' = location
               /\ outcome' = "redirect"]_vars

\* a redirect made while the notification of the fragment it replaced is queued
C16_Witness ==
    /\ outcome = "redirect"
    /\ pending = 2
    /\ location = <<>>
    /\ hash # <<>>

\* C17: init is idempotent: once attached the router stays attached with its one
\* listener, a further init changes nothing, and a delivered notification takes
\* one event off the queue and dispatches every route once.
C17_InitOnce ==
    [][/\ alreadyAttached => (alreadyAttached' /\ onhashchange')
       /\ init => (alreadyAttached' /\ onhashchange')
       /\ (init /\ alreadyAttached)
          => UNCHANGED <<hash, pending, location, args, ignoreHashchangeEvent,
                         routes, sortedRoutes>>
       /\ Notify
          => /\ pending' = pending - 1 + (IF outcome' = "redirect" THEN 1 ELSE 0)
             /\ outcome' = "dispatched"
                => \A n \in 1..Len(sortedRoutes) :
                      Cardinality({m \in 1..Len(calls') :
                                     /\ calls'[m].ev = "dispatch"
                                     /\ calls'[m].route = sortedRoutes[n]}) = 1]_vars

\* a run of onLocationChanged, delivered or called by refresh, that commits the
\* fragment while the count is above 0
CommitsSuppressed ==
    /\ Notify \/ Refresh
    /\ realLocation(hash, <<>>, location) = hash
    /\ ignoreHashchangeEvent > 0

\* C22: a run of onLocationChanged that commits with the count above 0 sets
\* location and args, lowers the count by exactly one and dispatches no route:
\* no route's active, changed, s_args or listeners change; the count is never
\* negative and nothing else lowers it.
C22_SuppressedCommit ==
    [][/\ CommitsSuppressed
          => /\ location' = hash
             /\ args' = Split(hash)
             /\ ignoreHashchangeEvent' = ignoreHashchangeEvent - 1
             /\ calls' = <<>>
             /\ routes' = routes
             /\ sortedRoutes' = sortedRoutes
             /\ hash' = hash
       /\ ignoreHashchangeEvent' >= 0
       /\ ignoreHashchangeEvent' < ignoreHashchangeEvent => CommitsSuppressed]_vars

\* a suppressed commit of a location that an active route does not match: the
\* route is still active
C22_Witness ==
    /\ outcome = "suppressed"
    /\ location = <<"/", "b">>
    /\ args = <<<<>>, <<"b">>>>
    /\ ignoreHashchangeEvent = 0
    /\ \E n \in 1..Len(routes) :
          /\ routes[n].active
          /\ Match(routes[n].routeRegex, location) = <<>>

\* C23: in every state of the router, from the object literal on, args is
\* location split on "/".
C23_SegmentsAreSplit ==
    args = Split(location)

\* with no notification queued, location is the platform's fragment
Settled == pending = 0 => location = hash

\* C28: from a state where location is the platform's fragment, through setRoute,
\* refresh, changes of the fragment from outside and deliveries of notifications
\* in any order, location is the fragment whenever no notification is queued: no
\* step leads from a state where that holds to one where it does not, and a
\* write of the fragment that queues no notification leaves the fragment as it was.
C28_SettledOnHash ==
    [][/\ Settled => Settled'
       /\ (hash' # hash) => pending' > 0
       /\ (location' # location) => location' = hash']_vars

\* a fragment set from outside and one set by setRoute have both been committed,
\* and nothing is queued
C28_Witness ==
    /\ pending = 0
    /\ location = hash
    /\ location = <<"/", "b">>
    /\ outcome = "dispatched"
    /\ \E n \in 1..Len(routes) : routes[n].active

====
